---------------------------- MODULE Spec2Model ----------------------------
(***************************************************************************)
(* Two-stage entity resolution of src/pipelines.py:                        *)
(*   run_top_vs_sfdc  (Top list -> SFDC accounts)                          *)
(*   run_sfdc_vs_sap  (Stage1 rows -> SAP customers, auto / manual tables) *)
(* with the helpers canonicalise, is_english_row and addr_score.           *)
(*                                                                         *)
(* Strings are sequences of one-character strings.  A table cell is a      *)
(* record [null, s]: null = TRUE is pandas' NaN (an empty spreadsheet      *)
(* cell), otherwise s is the cell's text.                                  *)
(***************************************************************************)
EXTENDS Integers, Sequences, FiniteSets, TLC

(***************************************************************************)
(* Characters                                                              *)
(***************************************************************************)
UpperLetters ==
    {"A","B","C","D","E","F","G","H","I","J","K","L","M",
     "N","O","P","Q","R","S","T","U","V","W","X","Y","Z"}

Digits == {"0","1","2","3","4","5","6","7","8","9"}

\* str.upper() on the characters the model uses (all others are unchanged).
UpperMap ==
    ("a" :> "A") @@ ("c" :> "C") @@ ("e" :> "E") @@ ("f" :> "F") @@
    ("m" :> "M") @@ ("n" :> "N") @@ ("o" :> "O") @@ ("i" :> "I") @@
    ("é" :> "É")

UpperChar(c) == IF c \in DOMAIN UpperMap THEN UpperMap[c] ELSE c

\* Characters outside the 7-bit ASCII range.
NonAscii == {"é", "É"}

IsAscii(c) == c \notin NonAscii

\* \w: letters (accented ones too), digits and the underscore.
IsWord(c) == c \in UpperLetters \cup Digits \cup DOMAIN UpperMap \cup NonAscii \cup {"_"}

\* \s
IsSpace(c) == c \in {" ", "\t"}

Drop == "<drop>"

Keep(c) == c # Drop

Min2(x, y) == IF x <= y THEN x ELSE y

Max2(x, y) == IF x >= y THEN x ELSE y

Range(s) == {s[i] : i \in 1..Len(s)}

(***************************************************************************)
(* Cells                                                                   *)
(***************************************************************************)
NaN == [null |-> TRUE, s |-> <<>>]

Txt(s) == [null |-> FALSE, s |-> s]

\* str(value): the text of a cell, "nan" for NaN.
Str(v) == IF v.null THEN <<"n","a","n">> ELSE v.s

(***************************************************************************)
(* canonicalise                                                            *)
(***************************************************************************)
\* The patterns of CORP_SUFFIXES without their leading and trailing \b.
CORP_SUFFIXES ==
    << <<"I","N","C">>,
       <<"I","N","C",".">>,
       <<"C","O","R","P">>,
       <<"C","O","R","P","O","R","A","T","I","O","N">>,
       <<"L","L","C">>,
       <<"L",".","L",".","C",".">>,
       <<"L","T","D">>,
       <<"L","I","M","I","T","E","D">>,
       <<"C","O","M","P","A","N","Y">>,
       <<"C","O">>,
       <<"C","O",".">> >>

\* \b before position p (between s[p-1] and s[p]).
WordAt(s, p) == p >= 1 /\ p <= Len(s) /\ IsWord(s[p])

Boundary(s, p) == WordAt(s, p - 1) # WordAt(s, p)

\* \b pat \b matches s at position i.
MatchAt(s, pat, i) ==
    /\ i >= 1
    /\ i + Len(pat) - 1 <= Len(s)
    /\ \A k \in 1..Len(pat) : s[i + k - 1] = pat[k]
    /\ Boundary(s, i)
    /\ Boundary(s, i + Len(pat))

\* re.sub(r"\b pat \b", " ", s): every match becomes one space.  The matches
\* re.sub takes are the leftmost non-overlapping ones; a match is skipped
\* when an earlier match covers its first character.
SubSuffix(s, pat) ==
    LET covered(i) == \E k \in 1..(Len(pat) - 1) : MatchAt(s, pat, i - k)
        marked == [i \in 1..Len(s) |->
                     IF covered(i) THEN Drop
                     ELSE IF MatchAt(s, pat, i) THEN " "
                     ELSE s[i]]
    IN  SelectSeq(marked, Keep)

RECURSIVE SubSuffixes(_, _)
SubSuffixes(s, n) ==
    IF n > Len(CORP_SUFFIXES) THEN s
    ELSE SubSuffixes(SubSuffix(s, CORP_SUFFIXES[n]), n + 1)

\* s.upper()
Upper(s) == [i \in 1..Len(s) |-> UpperChar(s[i])]

\* s.encode("ascii", "ignore").decode("ascii")
StripNonAscii(s) == SelectSeq(s, IsAscii)

\* re.sub(r"[^\w\s]", " ", s)
PunctToSpace(s) ==
    [i \in 1..Len(s) |-> IF IsWord(s[i]) \/ IsSpace(s[i]) THEN s[i] ELSE " "]

\* re.sub(r"\s+", " ", s)
CollapseWs(s) ==
    LET marked == [i \in 1..Len(s) |->
                     IF ~IsSpace(s[i]) THEN s[i]
                     ELSE IF i > 1 /\ IsSpace(s[i - 1]) THEN Drop
                     ELSE " "]
    IN  SelectSeq(marked, Keep)

\* s.strip()
Strip(s) ==
    IF \A i \in 1..Len(s) : IsSpace(s[i]) THEN <<>>
    ELSE LET lo == CHOOSE i \in 1..Len(s) :
                     ~IsSpace(s[i]) /\ \A j \in 1..(i - 1) : IsSpace(s[j])
             hi == CHOOSE i \in 1..Len(s) :
                     ~IsSpace(s[i]) /\ \A j \in (i + 1)..Len(s) : IsSpace(s[j])
         IN  SubSeq(s, lo, hi)

\* canonicalise with the non-ASCII characters dropped after the suffixes.
canonicalise_late_ascii(name) ==
    Strip(CollapseWs(StripNonAscii(SubSuffixes(PunctToSpace(Upper(Str(name))), 1))))

canonicalise(name) ==
    Strip(CollapseWs(SubSuffixes(PunctToSpace(StripNonAscii(Upper(Str(name)))), 1)))

(***************************************************************************)
(* difflib.SequenceMatcher(None, a, b).ratio()                             *)
(* Positions are 1-based and ranges inclusive: the region of a is          *)
(* a[alo..ahi], empty when alo > ahi.                                      *)
(***************************************************************************)
\* autojunk: once b has 200 or more elements, an element that occurs more
\* than len(b) // 100 + 1 times is "popular" and is left out of b2j.
Popular(b) ==
    IF Len(b) >= 200
    THEN {c \in Range(b) :
            Cardinality({j \in 1..Len(b) : b[j] = c}) > (Len(b) \div 100) + 1}
    ELSE {}

SetMin(S) == CHOOSE x \in S : \A y \in S : x <= y

SetMax(S) == CHOOSE x \in S : \A y \in S : x >= y

\* The least element of S, or dflt when S is empty.
FirstOr(S, dflt) == IF S = {} THEN dflt ELSE SetMin(S)

\* The pairs (i, j) of the region with a[i] = b[j] that b2j indexes.
MatchPairs(a, b, pop, alo, ahi, blo, bhi) ==
    {p \in (alo..ahi) \X {j \in blo..bhi : b[j] \notin pop} : a[p[1]] = b[p[2]]}

\* newj2len[j] at row i: the length of the run of pairs that ends at p.
RunLen(pairs, p, alo, blo) ==
    FirstOr({s \in 1..Min2(p[1] - alo, p[2] - blo) : <<p[1] - s, p[2] - s>> \notin pairs},
            Min2(p[1] - alo, p[2] - blo) + 1)

RunLens(pairs, alo, blo) == [p \in pairs |-> RunLen(pairs, p, alo, blo)]

\* k > bestsize is strict: of the runs of the greatest length the scan keeps
\* the one it meets first, rows i in order and within a row j in order.
FirstInRow(ends, size, iEnd) ==
    <<iEnd - size + 1, SetMin({p[2] : p \in {q \in ends : q[1] = iEnd}}) - size + 1, size>>

FirstOfLongest(ends, size) == FirstInRow(ends, size, SetMin({p[1] : p \in ends}))

LongestOf(runs, size) == FirstOfLongest({p \in DOMAIN runs : runs[p] = size}, size)

ScanBest(runs, alo, blo) ==
    IF DOMAIN runs = {} THEN <<alo, blo, 0>>
    ELSE LongestOf(runs, SetMax({runs[p] : p \in DOMAIN runs}))

Shift(m, back) == <<m[1] - back, m[2] - back, m[3] + back>>

Grow(m, fwd) == <<m[1], m[2], m[3] + fwd>>

\* The two extension loops over equal elements (no element is junk).
ExtendBack(a, b, alo, blo, m) ==
    Shift(m, FirstOr({s \in 1..Min2(m[1] - alo, m[2] - blo) : a[m[1] - s] # b[m[2] - s]},
                     Min2(m[1] - alo, m[2] - blo) + 1) - 1)

ExtendFwd(a, b, ahi, bhi, m) ==
    Grow(m, FirstOr({s \in 1..Min2(ahi - (m[1] + m[3]) + 1, bhi - (m[2] + m[3]) + 1) :
                        a[m[1] + m[3] + s - 1] # b[m[2] + m[3] + s - 1]},
                    Min2(ahi - (m[1] + m[3]) + 1, bhi - (m[2] + m[3]) + 1) + 1) - 1)

\* find_longest_match: <<i, j, k>> with a[i..i+k-1] = b[j..j+k-1].
FindLongestMatch(a, b, pop, alo, ahi, blo, bhi) ==
    ExtendFwd(a, b, ahi, bhi,
        ExtendBack(a, b, alo, blo,
            ScanBest(RunLens(MatchPairs(a, b, pop, alo, ahi, blo, bhi), alo, blo), alo, blo)))

\* get_matching_blocks: the total size of the matching blocks; a block m
\* splits its region into the part before it and the part after it.
RECURSIVE MatchTotal(_, _, _, _, _, _, _)
SplitAt(a, b, pop, alo, ahi, blo, bhi, m) ==
    IF m[3] = 0 THEN 0
    ELSE m[3] + MatchTotal(a, b, pop, alo, m[1] - 1, blo, m[2] - 1)
              + MatchTotal(a, b, pop, m[1] + m[3], ahi, m[2] + m[3], bhi)

MatchTotal(a, b, pop, alo, ahi, blo, bhi) ==
    IF alo > ahi \/ blo > bhi THEN 0
    ELSE SplitAt(a, b, pop, alo, ahi, blo, bhi,
                 FindLongestMatch(a, b, pop, alo, ahi, blo, bhi))

Matches(a, b) == MatchTotal(a, b, Popular(b), 1, Len(a), 1, Len(b))

\* ratio() = 2.0 * matches / (len(a) + len(b)), 1.0 when both are empty,
\* kept as the fraction <<numerator, denominator>>.
Ratio(a, b) ==
    IF Len(a) + Len(b) = 0 THEN <<1, 1>> ELSE <<2 * Matches(a, b), Len(a) + Len(b)>>

\* round(num / den, digits) as an integer count of 10^-digits, ties to even.
RoundFrac(num, den, scale) ==
    LET q == (num * scale) \div den
        r == (num * scale) % den
    IN  IF 2 * r > den THEN q + 1
        ELSE IF 2 * r < den THEN q
        ELSE IF q % 2 = 0 THEN q ELSE q + 1

(***************************************************************************)
(* is_english_row                                                          *)
(***************************************************************************)
\* re.match(r'^[\x00-\x7F]+$', val): one or more characters, all ASCII.
MatchesEnglish(s) == Len(s) >= 1 /\ \A i \in 1..Len(s) : IsAscii(s[i])

\* row is the sequence of the row's cells; a NaN cell is not a str.
is_english_row(row) ==
    \A i \in 1..Len(row) : row[i].null \/ MatchesEnglish(row[i].s)

(***************************************************************************)
(* Addresses.  An address text is kept as its sequence of tokens (the      *)
(* commas and blanks between them are separators only), each token with    *)
(* the label usaddress gives it: [t |-> characters, l |-> label].          *)
(***************************************************************************)
Tok(t, l) == [t |-> t, l |-> l]

StreetLabels ==
    <<"AddressNumber", "StreetNamePreDirectional", "StreetName",
      "StreetNamePostType", "StreetNamePostDirectional">>

RECURSIVE JoinSp(_)
\* " ".join(parts)
JoinSp(parts) ==
    IF Len(parts) = 0 THEN <<>>
    ELSE IF Len(parts) = 1 THEN parts[1]
    ELSE parts[1] \o <<" ">> \o JoinSp(Tail(parts))

\* addr.upper()
UpperAddr(addr) == [i \in 1..Len(addr) |-> Tok(Upper(addr[i].t), addr[i].l)]

\* usaddress.tag(addr)[0]: the tokens of one label joined by blanks;
\* RepeatedLabelError (ok = FALSE) when a label comes back after another one.
Tag(addr) ==
    LET n == Len(addr)
        repeated == \E i, j, k \in 1..n :
                        i < j /\ j < k /\ addr[i].l = addr[k].l /\ addr[j].l # addr[i].l
        labels == {addr[i].l : i \in 1..n}
        text(l) == LET HasLabel(tk) == tk.l = l
                       toks == SelectSeq(addr, HasLabel)
                   IN  JoinSp([i \in 1..Len(toks) |-> toks[i].t])
    IN  [ok |-> ~repeated, f |-> [l \in labels |-> text(l)]]

\* p.get(label, "")
Get(p, l) == IF l \in DOMAIN p THEN p[l] ELSE <<>>

\* p.get(label): None (here NaN) when the label is absent.
GetOpt(p, l) == IF l \in DOMAIN p THEN Txt(p[l]) ELSE NaN

NonEmpty(s) == Len(s) > 0

\* " ".join(filter(None, [the five street sub-fields]))
StreetParts(p) ==
    JoinSp(SelectSeq([i \in 1..Len(StreetLabels) |-> Get(p, StreetLabels[i])], NonEmpty))

\* set(a.replace(",", " ").split())
TokenSet(addr) == {addr[i].t : i \in 1..Len(addr)}

\* The fallback of addr_score, in thousandths.
Jaccard(a1, a2) ==
    IF TokenSet(a1) = {} \/ TokenSet(a2) = {} THEN 0
    ELSE RoundFrac(Cardinality(TokenSet(a1) \cap TokenSet(a2)),
                   Cardinality(TokenSet(a1) \cup TokenSet(a2)), 1000)

\* p1.get("StateName") == p2.get("StateName"): 0.2, in tenths
StateBonus(p1, p2) == IF GetOpt(p1, "StateName") = GetOpt(p2, "StateName") THEN 2 ELSE 0

\* p1.get("ZipCode") == p2.get("ZipCode"): 0.1, in tenths
ZipBonus(p1, p2) == IF GetOpt(p1, "ZipCode") = GetOpt(p2, "ZipCode") THEN 1 ELSE 0

\* round(min(score, 1.0), 3) of the fraction num / den, in thousandths.
Capped(num, den) == IF num >= den THEN 1000 ELSE RoundFrac(num, den, 1000)

\* 0.4 * street_sim + 0.3 * city_sim + the bonuses (in tenths).
Weighted(street_sim, city_sim, bonus) ==
    Capped(4 * street_sim[1] * city_sim[2] + 3 * city_sim[1] * street_sim[2]
             + bonus * street_sim[2] * city_sim[2],
           10 * street_sim[2] * city_sim[2])

Structured(p1, p2) ==
    Weighted(Ratio(StreetParts(p1), StreetParts(p2)),
             Ratio(Get(p1, "PlaceName"), Get(p2, "PlaceName")),
             StateBonus(p1, p2) + ZipBonus(p1, p2))

\* The try block: either tag() raising sends both addresses to the fallback.
ScoreParsed(a1, a2, p1, p2) ==
    IF ~p1.ok \/ ~p2.ok THEN Jaccard(a1, a2) ELSE Structured(p1.f, p2.f)

ScoreUpper(a1, a2) == ScoreParsed(a1, a2, Tag(a1), Tag(a2))

\* addr_score, in thousandths.
addr_score(addr1, addr2) == ScoreUpper(UpperAddr(addr1), UpperAddr(addr2))

(***************************************************************************)
(* Tables.  A raw row is a record of cells, one per column role; a name    *)
(* cell holds characters, an address cell holds tokens.  sfdcCols and      *)
(* sapCols are the roles whose configured column exists in the table.      *)
(***************************************************************************)
SfdcRoles == <<"id", "name", "website", "street", "state", "parent">>

SapRoles == <<"customer", "name1", "name2", "street", "city", "region", "postal">>

TokenRoles == {"street", "state", "city", "region", "postal"}

SeqToSet(s) == {s[n] : n \in 1..Len(s)}

\* Thresholds are counted in millionths.
TScale == 1000000

\* cell.fillna("").astype(str) / str(cell) if pd.notna(cell) else "":
\* the characters of a name cell, the tokens of an address cell.
CellToks(c) == IF c.null THEN <<>> ELSE c.s

\* The text of an address cell, as is_english_row reads it.
TokText(c) ==
    IF c.null THEN NaN
    ELSE Txt(JoinSp([n \in 1..Len(c.s) |-> c.s[n].t]))

PresentRoles(roles, cols) ==
    LET Present(r) == r \in cols
    IN  SelectSeq(roles, Present)

CellsOf(row, rs) ==
    [n \in 1..Len(rs) |->
       IF rs[n] \in TokenRoles THEN TokText(row[rs[n]]) ELSE row[rs[n]]]

\* The cells of a row, in column order, for the columns the table has.
RowCells(row, roles, cols) == CellsOf(row, PresentRoles(roles, cols))

\* s[:1]
First(s) == IF Len(s) = 0 THEN <<>> ELSE <<s[1]>>

Indices(n) == [m \in 1..n |-> m]

\* df[df.apply(is_english_row, axis=1)]: the index labels of the rows kept.
EnglishRows(raw, roles, cols) ==
    LET English(n) == is_english_row(RowCells(raw[n], roles, cols))
    IN  SelectSeq(Indices(Len(raw)), English)

(***************************************************************************)
(* run_top_vs_sfdc                                                         *)
(***************************************************************************)
SfdcFrame(raw, keep) ==
    [n \in 1..Len(keep) |->
       [idx |-> keep[n], r |-> raw[keep[n]],
        canon_name |-> canonicalise(raw[keep[n]].name)]]

\* LoadSfdc without the language filter of line 125.
LoadSfdc_unfiltered(raw, cols) == SfdcFrame(raw, Indices(Len(raw)))

\* The filtered SFDC table with canon_name; idx is the row's index label.
LoadSfdc(raw, cols) == SfdcFrame(raw, EnglishRows(raw, SfdcRoles, cols))

\* BlockOf with the block letter compared with cust_canon instead of
\* cust_canon[:1].
BlockOf_whole_name(frame, cust_canon, blk) ==
    LET InBlock(d) == ~blk \/ First(d.canon_name) = cust_canon
    IN  SelectSeq(frame, InBlock)

\* block = df[df["block_letter"] == cust_canon[:1]]; blk = FALSE is the
\* matcher without the block restriction (every row is compared).
BlockOf(frame, cust_canon, blk) ==
    LET InBlock(d) == ~blk \/ First(d.canon_name) = First(cust_canon)
    IN  SelectSeq(frame, InBlock)

\* top_canon = {cust: canonicalise(cust) for cust in top_list}, as the list
\* of the canonical names in the order of top_list.
TopCanon(names) == [n \in 1..Len(names) |-> canonicalise(Txt(names[n]))]

\* score >= threshold for the fraction score[1] / score[2].
AtLeast(score, threshold) == score[1] * TScale >= threshold * score[2]

\* parent = row.get(sfdc_cols['parent'], ""); canonicalised unless NaN.
ParentCanon(d, cols) ==
    IF "parent" \notin cols THEN canonicalise(Txt(<<>>))
    ELSE IF d.r.parent.null THEN <<>>
    ELSE canonicalise(d.r.parent)

\* Lines 148-164.  accept: score >= threshold_top_sf; keyerr: the pair is
\* accepted and a column read while its match row is built is missing.
Emit(cust, d, threshold, cols, exact_name, sim, child, score) ==
    [accept |-> AtLeast(score, threshold),
     keyerr |-> AtLeast(score, threshold) /\ ~({"street", "state", "id"} \subseteq cols),
     row |-> [End_Customer |-> cust,
              Acct_SFDC_ID |-> d.r.id,
              SFDC_Name    |-> d.r.name,
              Address      |-> CellToks(d.r.street) \o CellToks(d.r.state),
              Similarity   |-> RoundFrac(sim[1], sim[2], 1000),
              Exact_Name   |-> exact_name,
              Exact_Domain |-> FALSE,
              Child        |-> child,
              Score        |-> RoundFrac(score[1], score[2], 100000),
              rec          |-> d.idx]]

\* Lines 143-146: score = 1.0 if exact_name (exact_domain is always False)
\* else sim; min(score, 1.0) changes nothing.
Scored(cust, d, threshold, cols, exact_name, sim, child) ==
    Emit(cust, d, threshold, cols, exact_name, sim, child,
         IF exact_name THEN <<1, 1>> ELSE sim)

\* One pass of the inner loop of run_top_vs_sfdc: the pair (cust, d), with
\* cust_canon = top_canon[cust] and topSet = top_canon_set.
Stage1Pair(cust, cust_canon, d, threshold, topSet, cols) ==
    Scored(cust, d, threshold, cols, cust_canon = d.canon_name,
           Ratio(cust_canon, d.canon_name), ParentCanon(d, cols) \in topSet)

(***************************************************************************)
(* run_sfdc_vs_sap                                                         *)
(***************************************************************************)
\* sap.drop_duplicates(subset=[customer]): the first row of each customer.
DropDuplicates(raw, keep) ==
    LET FirstOf(n) == \A m \in 1..(n - 1) :
                         m \in SeqToSet(keep) => raw[m].customer # raw[n].customer
    IN  SelectSeq(keep, FirstOf)

\* sap["Name 1"]
Name1(r) == Strip(CellToks(r.name1) \o <<" ">> \o CellToks(r.name2))

\* sap["Address"]
SapAddress(r) ==
    CellToks(r.street) \o CellToks(r.city) \o CellToks(r.region) \o CellToks(r.postal)

SapEntry(idx, r, name) ==
    [idx |-> idx, customer |-> r.customer, Name1 |-> name,
     Address |-> SapAddress(r), canon_name |-> canonicalise(Txt(name))]

SapFrame(raw, keep) == [n \in 1..Len(keep) |-> SapEntry(keep[n], raw[keep[n]], Name1(raw[keep[n]]))]

\* Lines 191-207: the SAP table after the language filter, the
\* de-duplication and the derived columns.
LoadSap(raw, cols) == SapFrame(raw, DropDuplicates(raw, EnglishRows(raw, SapRoles, cols)))

SimRows(block, cust_canon) ==
    [n \in 1..Len(block) |->
       [row |-> block[n], sim |-> Ratio(cust_canon, block[n].canon_name)]]

\* Lines 220-228: the rows with sim >= threshold_sf_sap become candidates.
Hits(scored, threshold) ==
    LET Similar(e) == AtLeast(e.sim, threshold)
    IN  [n \in 1..Len(SelectSeq(scored, Similar)) |->
           [SAP_ID |-> SelectSeq(scored, Similar)[n].row.customer,
            SAP_Name |-> SelectSeq(scored, Similar)[n].row.Name1,
            Address |-> SelectSeq(scored, Similar)[n].row.Address,
            Name_Score |-> RoundFrac(SelectSeq(scored, Similar)[n].sim[1],
                                     SelectSeq(scored, Similar)[n].sim[2], 1000),
            sap |-> SelectSeq(scored, Similar)[n].row.idx]]

CandidatesFor(frame, threshold, blk, cust_canon) ==
    Hits(SimRows(BlockOf(frame, cust_canon, blk), cust_canon), threshold)

\* The candidates of the Stage1 row sf.
Candidates(sf, frame, threshold, blk) ==
    CandidatesFor(frame, threshold, blk, canonicalise(sf.SFDC_Name))

\* c["Name_Score"] == 1.0
IsPerfect(c) == c.Name_Score = 1000

Numeric(v) == [num |-> TRUE, val |-> v, text |-> ""]

Sentinel(s) == [num |-> FALSE, val |-> 0, text |-> s]

\* A row of an output table; sf and sap are the index labels of the Stage1
\* row and of the SAP row it was made from.
OutRow(sf, n, c, addrScore, decision) ==
    [SFDC_ID |-> sf.Acct_SFDC_ID,
     SAP_ID |-> c.SAP_ID,
     SFDC_Name |-> sf.SFDC_Name,
     SAP_Name |-> c.SAP_Name,
     SFDC_Address |-> sf.Address,
     SAP_Address |-> c.Address,
     Name_Score |-> c.Name_Score,
     Address_Score |-> addrScore,
     Decision |-> decision,
     sf |-> n,
     sap |-> c.sap]

\* Lines 238-239: c["Addr_Score"] = addr_score(sf_addr, c["Address"])
WithAddrScore(sf, perfects) ==
    [n \in 1..Len(perfects) |->
       [c |-> perfects[n], Addr_Score |-> addr_score(sf.Address, perfects[n].Address)]]

PerfectAddr(e) == e.Addr_Score = 1000

Labelled(sf, n, scored, decision) ==
    [m \in 1..Len(scored) |->
       OutRow(sf, n, scored[m].c, Numeric(scored[m].Addr_Score), decision)]

\* TieBreak with the address-mismatch rows appended to auto_matches.
TieBreak_review_auto(sf, n, scored) ==
    IF \E m \in 1..Len(scored) : PerfectAddr(scored[m])
    THEN [auto |-> Labelled(sf, n, SelectSeq(scored, PerfectAddr),
                            "PERFECT_NAME_AND_ADDRESS_MATCH"),
          manual |-> <<>>]
    ELSE [auto |-> Labelled(sf, n, scored, "REVIEW_NAME_MATCH_ADDRESS_MISMATCH"),
          manual |-> <<>>]

\* TieBreak with the loop of line 243 run over perfects instead of perfect_addr.
TieBreak_all_perfects(sf, n, scored) ==
    IF \E m \in 1..Len(scored) : PerfectAddr(scored[m])
    THEN [auto |-> Labelled(sf, n, scored, "PERFECT_NAME_AND_ADDRESS_MATCH"),
          manual |-> <<>>]
    ELSE [auto |-> <<>>,
          manual |-> Labelled(sf, n, scored, "REVIEW_NAME_MATCH_ADDRESS_MISMATCH")]

\* Lines 241-267: the address tie-break among two or more perfects.
TieBreak(sf, n, scored) ==
    IF \E m \in 1..Len(scored) : PerfectAddr(scored[m])
    THEN [auto |-> Labelled(sf, n, SelectSeq(scored, PerfectAddr),
                            "PERFECT_NAME_AND_ADDRESS_MATCH"),
          manual |-> <<>>]
    ELSE [auto |-> <<>>,
          manual |-> Labelled(sf, n, scored, "REVIEW_NAME_MATCH_ADDRESS_MISMATCH")]

NotPerfect(c) == ~IsPerfect(c)

Plain(sf, n, cands, addrScore, decision) ==
    [m \in 1..Len(cands) |-> OutRow(sf, n, cands[m], addrScore, decision)]

\* Lines 268-293: every candidate is emitted, by its Name_Score.
SinglePath(sf, n, candidates) ==
    [auto |-> Plain(sf, n, SelectSeq(candidates, IsPerfect),
                    Sentinel("Name matches (no need of address match)"),
                    "PERFECT_NAME_SINGLE_MATCH"),
     manual |-> Plain(sf, n, SelectSeq(candidates, NotPerfect),
                      Sentinel("Name doesn't match, address score not calculated"),
                      "NEED_REVIEW_NAME_MISMATCH")]

\* Lines 230-293: what the candidates of sf add to the two tables.
Decide(sf, n, candidates) ==
    IF Len(SelectSeq(candidates, IsPerfect)) > 1
    THEN TieBreak(sf, n, WithAddrScore(sf, SelectSeq(candidates, IsPerfect)))
    ELSE SinglePath(sf, n, candidates)

\* The body of the loop of run_sfdc_vs_sap for the n-th Stage1 row sf.
Stage2Decide(sf, n, frame, threshold, blk) ==
    Decide(sf, n, Candidates(sf, frame, threshold, blk))

(***************************************************************************)
(* The whole of a stage as a function of its inputs (no column missing).   *)
(***************************************************************************)
PairsOf(names, canon, n, block, threshold, cols) ==
    [m \in 1..Len(block) |->
       Stage1Pair(names[n], canon[n], block[m], threshold, SeqToSet(canon), cols)]

Accepted(p) == p.accept

RowsOf(pairs) ==
    [m \in 1..Len(SelectSeq(pairs, Accepted)) |-> SelectSeq(pairs, Accepted)[m].row]

RECURSIVE Stage1Table(_, _, _, _, _, _, _)
Stage1Table(names, canon, n, frame, threshold, cols, blk) ==
    IF n > Len(names) THEN <<>>
    ELSE RowsOf(PairsOf(names, canon, n, BlockOf(frame, canon[n], blk), threshold, cols))
           \o Stage1Table(names, canon, n + 1, frame, threshold, cols, blk)

Joined(d, rest) == [auto |-> d.auto \o rest.auto, manual |-> d.manual \o rest.manual]

RECURSIVE Stage2Tables(_, _, _, _, _)
Stage2Tables(rows, n, frame, threshold, blk) ==
    IF n > Len(rows) THEN [auto |-> <<>>, manual |-> <<>>]
    ELSE Joined(Stage2Decide(rows[n], n, frame, threshold, blk),
                Stage2Tables(rows, n + 1, frame, threshold, blk))

(***************************************************************************)
(* Inputs of the model                                                     *)
(***************************************************************************)
MaxTop == 2

MaxSfdc == 2

MaxSap == 3

\* The sub-lists of pool (its entries in pool order) of at most max entries.
SubLists(pool, max) ==
    {SelectSeq(pool, LAMBDA e : e \in S) :
        S \in {X \in SUBSET SeqToSet(pool) : Cardinality(X) <= max}}

cACME == <<"A","C","M","E">>

cAcmeInc == <<"A","c","m","e"," ","I","n","c",".">>

cNan == <<"N","a","n">>

cBACME == <<"B","A","C","M","E">>

tMain == <<Tok(<<"1">>, "AddressNumber"), Tok(<<"M","n">>, "StreetName")>>

tOak == <<Tok(<<"2">>, "AddressNumber"), Tok(<<"O","K">>, "StreetName")>>

tRepeated == tMain \o <<Tok(<<"2">>, "AddressNumber")>>

tCA == <<Tok(<<"C","A">>, "StateName")>>

tNY == <<Tok(<<"N","Y">>, "StateName")>>

Id(a, b) == Txt(<<a, b>>)

TopPool == <<cAcmeInc, cNan, cBACME>>

SfdcRow(id, name, website, street, state, parent) ==
    [id |-> id, name |-> name, website |-> website,
     street |-> street, state |-> state, parent |-> parent]

SfdcPool ==
    << SfdcRow(Id("S","1"), Txt(cACME), NaN, Txt(tMain), Txt(tCA), NaN),
       SfdcRow(Id("S","2"), NaN, NaN, NaN, NaN, Txt(<<"A","c","m","e"," ","C","o">>)),
       SfdcRow(Id("S","3"), Txt(<<"A","c","m">>), NaN, Txt(tOak), Txt(tNY), NaN),
       SfdcRow(Id("S","4"), Txt(<<"A","c","m","é">>), NaN, Txt(tMain), Txt(tCA), NaN) >>

SapRow(customer, name1, name2, street, city, region, postal) ==
    [customer |-> customer, name1 |-> name1, name2 |-> name2, street |-> street,
     city |-> city, region |-> region, postal |-> postal]

SapPool ==
    << SapRow(Id("C","1"), Txt(cACME), NaN, Txt(tMain), NaN, Txt(tCA), NaN),
       SapRow(Id("C","2"), Txt(<<"A","c","m","e">>), Txt(<<"I","n","c">>), Txt(tOak),
              Txt(<<Tok(<<"X">>, "PlaceName")>>), Txt(tNY), Txt(<<Tok(<<"9">>, "ZipCode")>>)),
       SapRow(Id("C","3"), Txt(<<"A","C","M">>), NaN, NaN, NaN, NaN, NaN),
       SapRow(Id("C","1"), Txt(cACME), NaN, Txt(tRepeated), NaN, NaN, NaN),
       SapRow(Id("C","5"), Txt(cBACME), NaN, Txt(tMain), NaN, Txt(tCA), NaN),
       SapRow(Id("C","6"), Txt(<<"A","c","m","é">>), NaN, Txt(tMain), NaN, Txt(tCA), NaN) >>

\* The thresholds <<threshold_top_sf, threshold_sf_sap>>, in millionths: the
\* defaults 0.85, and values with more decimals than the scores are rounded to.
ThresholdPool == {<<850000, 850000>>, <<857142, 857100>>}

(***************************************************************************)
(* The pipeline as app.py runs it: run_top_vs_sfdc, then run_sfdc_vs_sap   *)
(* on its result.                                                          *)
(***************************************************************************)
VARIABLES
    top,        \* top_list: the distinct non-null Top names
    sfdcRaw,    \* the SFDC table as read
    sapRaw,     \* the SAP table as read
    T1, T2,     \* threshold_top_sf, threshold_sf_sap
    sfdcCols,   \* the roles whose SFDC column exists
    sapCols,    \* the roles whose SAP column exists
    pc,         \* where the run is
    top_canon,  \* Stage1: the canonical names of top, in its order
    df,         \* Stage1: the filtered SFDC table with canon_name
    i, j,       \* Stage1: the Top name, and the row of its block, next compared
    compared,   \* Stage1: the number of (Top name, SFDC row) pairs compared
    matches,    \* Stage1: the match rows
    sap,        \* Stage2: the prepared SAP table
    k,          \* Stage2: the Stage1 row next processed
    auto,       \* auto_matches
    manual,     \* manual_review
    fn, arg, out, out2   \* a helper function called on its own: which, input, results

inputs == <<top, sfdcRaw, sapRaw, T1, T2, sfdcCols, sapCols>>

stage1 == <<top_canon, df, i, j, matches>>

stage2 == <<sap, k, auto, manual>>

helper == <<fn, arg, out, out2>>

vars == <<inputs, pc, compared, stage1, stage2, helper>>

AllSfdcCols == SeqToSet(SfdcRoles)

AllSapCols == SeqToSet(SapRoles)

Start ==
    /\ pc = "s1_load"
    /\ top_canon = <<>> /\ df = <<>> /\ i = 1 /\ j = 1 /\ compared = 0 /\ matches = <<>>
    /\ sap = <<>> /\ k = 1 /\ auto = <<>> /\ manual = <<>>
    /\ fn = "pipeline" /\ arg = <<>> /\ out = <<>> /\ out2 = <<>>

Init ==
    /\ top \in SubLists(TopPool, MaxTop)
    /\ sfdcRaw \in SubLists(SfdcPool, MaxSfdc)
    /\ sapRaw \in SubLists(SapPool, MaxSap)
    /\ \E th \in ThresholdPool : T1 = th[1] /\ T2 = th[2]
    /\ sfdcCols = AllSfdcCols
    /\ sapCols = AllSapCols
    /\ Start

\* Lines 117-129: the Top list is canonicalised, the SFDC table filtered and
\* given canon_name, block_letter and domain.  df[sfdc_cols['name']] and
\* df[sfdc_cols['website']] raise KeyError when the column is missing.
S1Load ==
    /\ pc = "s1_load"
    /\ IF {"name", "website"} \subseteq sfdcCols
       THEN /\ df' = LoadSfdc(sfdcRaw, sfdcCols)
            /\ pc' = "s1_loop"
       ELSE /\ df' = df
            /\ pc' = "failed"
    /\ top_canon' = TopCanon(top)
    /\ UNCHANGED <<inputs, i, j, matches, compared, stage2, helper>>

CurBlock == BlockOf(df, top_canon[i], TRUE)

S1Step(p) ==
    IF p.keyerr
    THEN pc' = "failed" /\ UNCHANGED <<matches, j>>
    ELSE /\ pc' = pc
         /\ j' = j + 1
         /\ matches' = IF p.accept THEN Append(matches, p.row) ELSE matches

\* Lines 134-164: one pass of the inner loop, for the pair (top[i], block[j]).
S1Compare ==
    /\ pc = "s1_loop"
    /\ i <= Len(top)
    /\ j <= Len(CurBlock)
    /\ S1Step(Stage1Pair(top[i], top_canon[i], CurBlock[j], T1, SeqToSet(top_canon), sfdcCols))
    /\ compared' = compared + 1
    /\ UNCHANGED <<inputs, top_canon, df, i, stage2, helper>>

\* Line 132: the block of top[i] is exhausted, the outer loop moves on.
S1NextCust ==
    /\ pc = "s1_loop"
    /\ i <= Len(top)
    /\ j > Len(CurBlock)
    /\ i' = i + 1
    /\ j' = 1
    /\ UNCHANGED <<inputs, pc, top_canon, df, matches, compared, stage2, helper>>

\* Line 166: run_top_vs_sfdc returns; app.py passes the table to Stage2.
S1Return ==
    /\ pc = "s1_loop"
    /\ i > Len(top)
    /\ pc' = "s2_load"
    /\ UNCHANGED <<inputs, stage1, compared, stage2, helper>>

\* Lines 191-207: every SAP column role is read while the table is
\* prepared; a missing column raises KeyError.
S2Load ==
    /\ pc = "s2_load"
    /\ IF sapCols = AllSapCols
       THEN /\ sap' = LoadSap(sapRaw, sapCols)
            /\ pc' = "s2_loop"
       ELSE /\ sap' = sap
            /\ pc' = "failed"
    /\ UNCHANGED <<inputs, stage1, compared, k, auto, manual, helper>>

S2Append(d) == auto' = auto \o d.auto /\ manual' = manual \o d.manual

\* Lines 212-293: the loop body for the Stage1 row matches[k].
S2Row ==
    /\ pc = "s2_loop"
    /\ k <= Len(matches)
    /\ S2Append(Stage2Decide(matches[k], k, sap, T2, TRUE))
    /\ k' = k + 1
    /\ UNCHANGED <<inputs, pc, stage1, compared, sap, helper>>

\* Lines 295-297
S2Return ==
    /\ pc = "s2_loop"
    /\ k > Len(matches)
    /\ pc' = "done"
    /\ UNCHANGED <<inputs, stage1, compared, stage2, helper>>

Next ==
    \/ S1Load
    \/ S1Compare
    \/ S1NextCust
    \/ S1Return
    \/ S2Load
    \/ S2Row
    \/ S2Return

Spec == Init /\ [][Next]_vars

(***************************************************************************)
(* The pipeline on tables that lack one configured column.                 *)
(***************************************************************************)
InitCols ==
    /\ top \in SubLists(TopPool, 1)
    /\ sfdcRaw \in SubLists(SfdcPool, 1)
    /\ sapRaw \in SubLists(SapPool, 1)
    /\ T1 = 850000
    /\ T2 = 850000
    /\ sfdcCols \in {AllSfdcCols} \cup {AllSfdcCols \ {r} : r \in AllSfdcCols}
    /\ sapCols \in {AllSapCols} \cup {AllSapCols \ {r} : r \in AllSapCols}
    /\ sfdcCols = AllSfdcCols \/ sapCols = AllSapCols
    /\ Start

SpecCols == InitCols /\ [][Next]_vars

(***************************************************************************)
(* The pipeline on names long enough for round(sim, 3) to reach 1.0.       *)
(***************************************************************************)
LongLen == 1000

LongA == [n \in 1..LongLen |-> "A"]

LongAB == LongA \o <<"B">>

InitLong ==
    /\ top \in SubLists(<<LongA, cAcmeInc>>, 2)
    /\ sfdcRaw \in SubLists(<<SfdcRow(Id("S","9"), Txt(LongA), NaN, Txt(tMain), Txt(tCA), NaN),
                             SfdcPool[1]>>, 2)
    /\ sapRaw \in SubLists(<<SapRow(Id("C","8"), Txt(LongAB), NaN, Txt(tMain), NaN, Txt(tCA), NaN),
                            SapRow(Id("C","9"), Txt(LongA), NaN, Txt(tOak), NaN, Txt(tNY), NaN),
                            SapPool[1]>>, 3)
    /\ T1 = 850000
    /\ T2 = 850000
    /\ sfdcCols = AllSfdcCols
    /\ sapCols = AllSapCols
    /\ Start

SpecLong == InitLong /\ [][Next]_vars

(***************************************************************************)
(* The helper functions called on their own.                               *)
(***************************************************************************)
Idle ==
    /\ top = <<>> /\ sfdcRaw = <<>> /\ sapRaw = <<>>
    /\ T1 = 850000 /\ T2 = 850000
    /\ sfdcCols = AllSfdcCols /\ sapCols = AllSapCols
    /\ top_canon = <<>> /\ df = <<>> /\ i = 1 /\ j = 1 /\ compared = 0 /\ matches = <<>>
    /\ sap = <<>> /\ k = 1 /\ auto = <<>> /\ manual = <<>>
    /\ pc = "call" /\ out = <<>> /\ out2 = <<>>

pipeline == <<inputs, compared, stage1, stage2>>

\* The sequences over alpha of at most n elements.
SeqsUpTo(alpha, n) == UNION {[1..m -> alpha] : m \in 0..n}

MaxLen == 4

CanonAlphabet == {"C", "O", "o", " ", ".", "é", "_"}

InitCanon ==
    /\ Idle
    /\ fn = "canonicalise"
    /\ arg \in SeqsUpTo(CanonAlphabet, MaxLen)

\* out = canonicalise(arg)
CanonCall ==
    /\ fn = "canonicalise" /\ pc = "call"
    /\ out' = canonicalise(Txt(arg))
    /\ pc' = "again"
    /\ UNCHANGED <<pipeline, fn, arg, out2>>

\* out2 = canonicalise(out)
CanonAgain ==
    /\ fn = "canonicalise" /\ pc = "again"
    /\ out2' = canonicalise(Txt(out))
    /\ pc' = "returned"
    /\ UNCHANGED <<pipeline, fn, arg, out>>

NextCanon == CanonCall \/ CanonAgain

SpecCanon == InitCanon /\ [][NextCanon]_vars

MaxCells == 3

CellPool ==
    {NaN, Txt(<<>>), Txt(<<"a">>), Txt(<<"é">>), Txt(<<"a", "é">>), Txt(<<"1", " ">>)}

InitLang ==
    /\ Idle
    /\ fn = "is_english_row"
    /\ arg \in SeqsUpTo(CellPool, MaxCells)

\* out = is_english_row(arg)
LangCall ==
    /\ fn = "is_english_row" /\ pc = "call"
    /\ out' = is_english_row(arg)
    /\ pc' = "returned"
    /\ UNCHANGED <<pipeline, fn, arg, out2>>

NextLang == LangCall

SpecLang == InitLang /\ [][NextLang]_vars

\* Addresses with each component absent or one of two values, and the same
\* with a second street token after them (which tag() rejects).
Opt(S) == {<<>>} \cup {<<tk>> : tk \in S}

AddrSpace ==
    {s \o p \o st \o z \o x :
        s \in Opt({Tok(<<"M","N">>, "StreetName"), Tok(<<"O","K">>, "StreetName")}),
        p \in Opt({Tok(<<"X">>, "PlaceName"), Tok(<<"Y">>, "PlaceName")}),
        st \in Opt({Tok(<<"C","A">>, "StateName"), Tok(<<"T","Q">>, "StateName")}),
        z \in Opt({Tok(<<"8">>, "ZipCode"), Tok(<<"9">>, "ZipCode")}),
        x \in Opt({Tok(<<"Z">>, "StreetName")})}

InitAddr ==
    /\ Idle
    /\ fn = "addr_score"
    /\ arg \in AddrSpace \X AddrSpace

\* out = addr_score(arg[1], arg[2])
AddrCall ==
    /\ fn = "addr_score" /\ pc = "call"
    /\ out' = addr_score(arg[1], arg[2])
    /\ pc' = "returned"
    /\ UNCHANGED <<pipeline, fn, arg, out2>>

NextAddr == AddrCall

SpecAddr == InitAddr /\ [][NextAddr]_vars

(***************************************************************************)
(* Properties of run_sfdc_vs_sap                                           *)
(***************************************************************************)
AutoShape(r) ==
    \/ /\ r.Decision = "PERFECT_NAME_AND_ADDRESS_MATCH"
       /\ r.Name_Score = 1000
       /\ r.Address_Score.num /\ r.Address_Score.val = 1000
    \/ /\ r.Decision = "PERFECT_NAME_SINGLE_MATCH"
       /\ r.Name_Score = 1000
       /\ ~r.Address_Score.num

\* low is the least Name Score (in millionths) of a NEED_REVIEW row.
ManualShape(r, low) ==
    \/ /\ r.Decision = "REVIEW_NAME_MATCH_ADDRESS_MISMATCH"
       /\ r.Name_Score = 1000
       /\ r.Address_Score.num /\ r.Address_Score.val < 1000
    \/ /\ r.Decision = "NEED_REVIEW_NAME_MISMATCH"
       /\ low <= r.Name_Score * 1000
       /\ r.Name_Score < 1000
       /\ ~r.Address_Score.num

\* C1, as amended: at every point of run_sfdc_vs_sap each row of the auto
\* and manual tables carries one of the four labels, and the label fixes the
\* table and the score shape: PERFECT_NAME_AND_ADDRESS_MATCH is in auto with
\* Name Score 1.0 and a numeric Address Score 1.0; PERFECT_NAME_SINGLE_MATCH
\* is in auto with Name Score 1.0 and a sentinel Address Score;
\* REVIEW_NAME_MATCH_ADDRESS_MISMATCH is in manual with Name Score 1.0 and a
\* numeric Address Score below 1.0; NEED_REVIEW_NAME_MISMATCH is in manual
\* with a sentinel Address Score and round(T2, 3) <= Name Score < 1.0.
C1_DecisionShapes ==
    /\ \A r \in SeqToSet(auto) : AutoShape(r)
    /\ \A r \in SeqToSet(manual) : ManualShape(r, 1000 * RoundFrac(T2, 1000, 1))

\* C1 as stated: the same, with T2 <= Name Score < 1.0 for a
\* NEED_REVIEW_NAME_MISMATCH row.
C1_Original ==
    /\ \A r \in SeqToSet(auto) : AutoShape(r)
    /\ \A r \in SeqToSet(manual) : ManualShape(r, T2)

\* A finished run with an address-confirmed row, and with a review row whose
\* rounded Name Score is below T2.
C1_Witness ==
    /\ pc = "done"
    /\ \E r \in SeqToSet(auto) : r.Decision = "PERFECT_NAME_AND_ADDRESS_MATCH"
    /\ \E r \in SeqToSet(manual) :
          r.Decision = "NEED_REVIEW_NAME_MISMATCH" /\ r.Name_Score * 1000 < T2

\* The similarity of the Stage1 row sf and the prepared SAP row s.
SimTo(sf, s) == Ratio(canonicalise(sf.SFDC_Name), s.canon_name)

\* The SAP rows that are candidates of sf with Name_Score = 1.0.
\* sim >= T2 and round(sim, 3) = 1.0
PerfectSim(sim) == AtLeast(sim, T2) /\ RoundFrac(sim[1], sim[2], 1000) = 1000

PerfectsOf(sf) ==
    {m \in 1..Len(sap) :
        /\ First(sap[m].canon_name) = First(canonicalise(sf.SFDC_Name))
        /\ PerfectSim(SimTo(sf, sap[m]))}

\* Those of them whose Addr_Score is 1.0.
PerfectAddrOf(sf) ==
    {m \in PerfectsOf(sf) : addr_score(sf.Address, sap[m].Address) = 1000}

\* The rows of tbl emitted for the n-th Stage1 row.
EmittedFor(tbl, n) == {q \in 1..Len(tbl) : tbl[q].sf = n}

\* The rows emitted for the n-th Stage1 row are the candidates pa, once
\* each, in the auto table with PERFECT_NAME_AND_ADDRESS_MATCH.
OnlyPerfectAddr(n, pa) ==
    /\ EmittedFor(manual, n) = {}
    /\ {auto[q].sap : q \in EmittedFor(auto, n)} = {sap[m].idx : m \in pa}
    /\ Cardinality(EmittedFor(auto, n)) = Cardinality(pa)
    /\ \A q \in EmittedFor(auto, n) : auto[q].Decision = "PERFECT_NAME_AND_ADDRESS_MATCH"

\* C2: when run_sfdc_vs_sap has returned, for a Stage1 row with two or more
\* candidates of Name_Score 1.0, at least one of them with Addr_Score 1.0,
\* the rows emitted for it are exactly the perfect-name candidates with
\* Addr_Score 1.0, once each, all in the auto table with
\* PERFECT_NAME_AND_ADDRESS_MATCH; no other candidate of that row is in
\* either table.
C2_TieBreak ==
    pc = "done" =>
        \A n \in 1..Len(matches) :
            (Cardinality(PerfectsOf(matches[n])) >= 2 /\ PerfectAddrOf(matches[n]) # {})
            => OnlyPerfectAddr(n, PerfectAddrOf(matches[n]))

\* A finished run in which a Stage1 row had a perfect-name candidate with a
\* perfect address and another with an imperfect one.
C2_Witness ==
    /\ pc = "done"
    /\ \E n \in 1..Len(matches) :
          /\ PerfectAddrOf(matches[n]) # {}
          /\ PerfectsOf(matches[n]) \ PerfectAddrOf(matches[n]) # {}
          /\ EmittedFor(auto, n) # {}

(***************************************************************************)
(* Properties of run_top_vs_sfdc                                           *)
(***************************************************************************)
\* run_top_vs_sfdc has just returned its table.
Stage1Done == pc = "s2_load"

\* score of the canonical names a and b: 1.0 when equal, else the ratio.
Stage1Score(a, b) == IF a = b THEN <<1, 1>> ELSE Ratio(a, b)

PassesFilter(b) == is_english_row(RowCells(sfdcRaw[b], SfdcRoles, sfdcCols))

\* The (Top name, SFDC record) pairs that pass the language filter, share
\* the first canonical character and score at least T1.
ExpectedPairs ==
    {p \in (1..Len(top)) \X (1..Len(sfdcRaw)) :
        /\ PassesFilter(p[2])
        /\ First(canonicalise(sfdcRaw[p[2]].name)) = First(canonicalise(Txt(top[p[1]])))
        /\ AtLeast(Stage1Score(canonicalise(Txt(top[p[1]])),
                               canonicalise(sfdcRaw[p[2]].name)), T1)}

\* The (Top name, SFDC record) pairs of the rows of matches.
EmittedPairs ==
    {<<p[1], matches[p[2]].rec>> :
        p \in {x \in (1..Len(top)) \X (1..Len(matches)) :
                  top[x[1]] = matches[x[2]].End_Customer}}

\* low is the least Score of a row, in millionths.
Stage1RowShape(r, low) ==
    /\ low <= r.Score * 10
    /\ r.Score <= 100000
    /\ ~r.Exact_Domain
    /\ r.Exact_Name => r.Score = 100000

AcmeAccepted ==
    \A a \in 1..Len(top), b \in 1..Len(sfdcRaw) :
        (top[a] = cAcmeInc /\ sfdcRaw[b].name = Txt(cACME) /\ PassesFilter(b))
        => \E q \in 1..Len(matches) :
              /\ matches[q].End_Customer = cAcmeInc /\ matches[q].rec = b
              /\ matches[q].Exact_Name /\ matches[q].Score = 100000

Stage1Emits(expected) ==
    EmittedPairs = expected /\ Len(matches) = Cardinality(expected)

Stage1Rows(low) ==
    Stage1Done =>
        /\ Stage1Emits(ExpectedPairs)
        /\ \A r \in SeqToSet(matches) : Stage1RowShape(r, low)
        /\ AcmeAccepted

\* C3, as amended: run_top_vs_sfdc emits a row (one) for a (Top name, SFDC
\* record) pair iff the record passes the language filter, its canonical
\* name has the first character of the Top name's canonical name, and
\* score >= T1, score being 1.0 for equal canonical names and the similarity
\* ratio otherwise; every row has Score (the score rounded to 5 decimals) in
\* [round(T1, 5), 1], Exact_Domain false, and Exact_Name only with Score
\* 1.0; Top 'Acme Inc.' against SFDC 'ACME' is accepted with Exact_Name true
\* and Score 1.0.
C3_Stage1Rows == Stage1Rows(10 * RoundFrac(T1, 10, 1))

\* C3 as stated: the same, with every row's Score in [T1, 1].
C3_Original == Stage1Rows(T1)

\* Stage1 has returned at threshold 0.85 with the row of 'Acme Inc.' and
\* 'ACME', and with a compared pair left out.
C3_Witness ==
    /\ Stage1Done
    /\ T1 = 850000
    /\ \E r \in SeqToSet(matches) :
          r.End_Customer = cAcmeInc /\ r.SFDC_Name = Txt(cACME) /\ r.Exact_Name
    /\ \E r \in SeqToSet(matches) : ~r.Exact_Name
    /\ Cardinality(ExpectedPairs) < Len(top) * Len(sfdcRaw)

\* C9 as stated: a null name has the empty canonical name, so an SFDC
\* record whose name is null has canon_name '' and is never matched to a Top
\* name whose canonical form is non-empty.
C9_Original ==
    /\ \A d \in SeqToSet(df) : d.r.name.null => d.canon_name = <<>>
    /\ \A r \in SeqToSet(matches) :
          r.SFDC_Name.null => canonicalise(Txt(r.End_Customer)) = <<>>

(***************************************************************************)
(* Blocking                                                                *)
(***************************************************************************)
\* The tables of the two stages without the block restriction, from the
\* tables as the stages prepared them.
Unblocked1 == Stage1Table(top, top_canon, 1, df, T1, sfdcCols, FALSE)

Unblocked2 == Stage2Tables(Unblocked1, 1, sap, T2, FALSE)

\* C7 as stated: the tables of Stage1 and Stage2 are those produced when
\* every source record is compared with every target record.
C7_Original ==
    pc = "done" =>
        /\ matches = Unblocked1
        /\ auto = Unblocked2.auto
        /\ manual = Unblocked2.manual

SameBlock(r) == First(canonicalise(Txt(r.End_Customer))) = First(canonicalise(r.SFDC_Name))

\* The pairs of different first characters that either stage could compare.
Cross1 ==
    {p \in (1..Len(top)) \X (1..Len(df)) :
        First(top_canon[p[1]]) # First(df[p[2]].canon_name)}

Cross2 ==
    {p \in (1..Len(matches)) \X (1..Len(sap)) :
        First(canonicalise(matches[p[1]].SFDC_Name)) # First(sap[p[2]].canon_name)}

CrossHit1 ==
    \E p \in Cross1 : AtLeast(Stage1Score(top_canon[p[1]], df[p[2]].canon_name), T1)

CrossHit2 == \E p \in Cross2 : AtLeast(SimTo(matches[p[1]], sap[p[2]]), T2)

\* u1 and u2 are the unrestricted tables of Stage1 and of Stage2.
BlockingRestricts(u1, u2) ==
    /\ matches = SelectSeq(u1, SameBlock)
    /\ ~CrossHit1 => matches = u1
    /\ ~CrossHit2 => auto = u2.auto /\ manual = u2.manual

\* C7, as amended: with the block restriction Stage1 produces exactly the
\* rows of the unrestricted Stage1 whose two canonical names begin with the
\* same character; Stage1 produces the unrestricted table whenever no pair of
\* different first characters scores T1 or more, and Stage2 produces, from
\* the same Stage1 table, the unrestricted tables whenever no pair of
\* different first characters has a similarity of T2 or more.
C7_BlockingRestricts ==
    pc = "done" => BlockingRestricts(Unblocked1, Stage2Tables(matches, 1, sap, T2, FALSE))

\* A finished run that produced rows, where blocking skipped pairs in both
\* stages and none of the skipped pairs reaches its threshold.
C7_Witness ==
    /\ pc = "done"
    /\ Cross1 # {} /\ ~CrossHit1
    /\ Cross2 # {} /\ ~CrossHit2
    /\ matches # <<>>
    /\ auto # <<>>

(***************************************************************************)
(* Missing columns                                                         *)
(***************************************************************************)
\* C4 as stated: with a configured column missing from its table, the stage
\* fails before its first comparison and before any match row; it neither
\* fails inside the matching loop nor completes.
C4_Original ==
    /\ sfdcCols # AllSfdcCols =>
          /\ pc \in {"s1_load", "failed"}
          /\ compared = 0
          /\ matches = <<>>
    /\ sapCols # AllSapCols =>
          /\ pc \notin {"s2_loop", "done"}
          /\ k = 1
          /\ auto = <<>> /\ manual = <<>>

(***************************************************************************)
(* Perfect name matches                                                    *)
(***************************************************************************)
PerfectLabels ==
    {"PERFECT_NAME_SINGLE_MATCH", "PERFECT_NAME_AND_ADDRESS_MATCH",
     "REVIEW_NAME_MATCH_ADDRESS_MISMATCH"}

\* C10 as stated: a row is emitted with one of the three perfect-name
\* labels only if the canonical name of its SFDC_Name equals the canonical
\* name of its SAP row.
C10_Original ==
    \A r \in SeqToSet(auto) \cup SeqToSet(manual) :
        r.Decision \in PerfectLabels
        => canonicalise(r.SFDC_Name) = canonicalise(Txt(r.SAP_Name))

(***************************************************************************)
(* Properties of the helper functions                                      *)
(***************************************************************************)
HasNonAscii(c) == ~c.null /\ \E n \in 1..Len(c.s) : ~IsAscii(c.s[n])

\* C5 as stated: is_english_row returns false iff a string field of the row
\* holds a character outside 7-bit ASCII; a row whose string fields are all
\* pure ASCII, the empty string included, gives true, whatever its
\* non-string fields.
C5_Original ==
    (fn = "is_english_row" /\ pc = "returned")
    => (out = FALSE <=> \E n \in 1..Len(arg) : HasNonAscii(arg[n]))

\* C6: canonicalise(canonicalise(x)) = canonicalise(x) for every x.
C6_Idempotent ==
    (fn = "canonicalise" /\ pc = "returned") => out2 = out

\* Both passes have run on a name from which the first pass removed a
\* corporate suffix and kept something.
C6_Witness ==
    /\ fn = "canonicalise" /\ pc = "returned"
    /\ out # <<>>
    /\ SubSuffixes(PunctToSpace(StripNonAscii(Upper(arg))), 1)
         # PunctToSpace(StripNonAscii(Upper(arg)))

\* Two non-empty addresses with no token in common.
Disjoint(a1, a2) ==
    /\ a1 # <<>> /\ a2 # <<>>
    /\ TokenSet(UpperAddr(a1)) \cap TokenSet(UpperAddr(a2)) = {}

\* C8 as stated: addr_score is in [0, 1], and below 0.3 for two completely
\* disjoint addresses, also when one or both lack a state or a postal code.
C8_Original ==
    (fn = "addr_score" /\ pc = "returned")
    => /\ out \in 0..1000
       /\ Disjoint(arg[1], arg[2]) => out < 300
=============================================================================
